---------------------------- MODULE Spec2Model ----------------------------
(***************************************************************************)
(* Model of the Lake Shore XIP instrument driver:                          *)
(*   - XIPInstrument.command / query / _error_check over the serial        *)
(*     transport (lakeshore/xip_instrument.py), specification SpecEngine;  *)
(*   - Teslameter.get_buffered_data, the buffered sample decoder           *)
(*     (lakeshore/teslameter.py), specification Spec.                      *)
(*   - XIPInstrument.connect_usb / disconnect_usb, the discovery of the    *)
(*     instrument among the serial ports, specification SpecConnect.       *)
(* Text read from the transport is a sequence of one-character strings, so *)
(* that `in`, replace, rstrip, split and re.split are computed character   *)
(* by character as Python computes them.  A line written to the transport  *)
(* is a sequence of tokens (the pieces the code concatenates).             *)
(***************************************************************************)
EXTENDS Integers, Sequences, FiniteSets, TLC

(***************************************************************************)
(* Bounds of the model.                                                    *)
(***************************************************************************)
\* longest raw response of the engine, counted in pieces (see Pieces)
MaxPieces == 3
\* number of engine calls followed in one behaviour
MaxCalls == 2
\* requested durations are 0, 5, ..., 5 * MaxDurationSteps milliseconds
MaxDurationSteps == 5
\* in-loop polls followed in one decode session
MaxPolls == 2
\* most serial ports the system lists
MaxPorts == 2

(***************************************************************************)
(* Python string operations on sequences of characters.                    *)
(***************************************************************************)
Whitespace == {" ", "\n", "\r", "\t"}

\* sub occurs in s starting at position k (1-based)
MatchAt(s, sub, k) ==
    /\ k >= 1
    /\ k + Len(sub) - 1 <= Len(s)
    /\ \A j \in 1..Len(sub) : s[k + j - 1] = sub[j]

\* Python: sub in s
Contains(s, sub) == \E k \in 1..(Len(s) + 1) : MatchAt(s, sub, k)

\* Python: s.replace(old, new) for a non-empty old: leftmost, non-overlapping
RECURSIVE Replace(_, _, _)
Replace(s, old, new) ==
    IF s = <<>> THEN <<>>
    ELSE IF MatchAt(s, old, 1)
         THEN new \o Replace(SubSeq(s, Len(old) + 1, Len(s)), old, new)
         ELSE <<Head(s)>> \o Replace(Tail(s), old, new)

\* Python: s.rstrip(chars) with chars given as a set of characters
RECURSIVE RStripChars(_, _)
RStripChars(s, chars) ==
    IF s # <<>> /\ s[Len(s)] \in chars
    THEN RStripChars(SubSeq(s, 1, Len(s) - 1), chars)
    ELSE s

\* Python: s.rstrip()
RStrip(s) == RStripChars(s, Whitespace)

\* Python: re.split of s on any single character of seps (s.split(c) for
\* seps = {c}); empty pieces are kept and the result is never empty
RECURSIVE SplitOn(_, _)
SplitOn(s, seps) ==
    IF \A k \in 1..Len(s) : s[k] \notin seps
    THEN <<s>>
    ELSE LET k == CHOOSE n \in 1..Len(s) :
                      /\ s[n] \in seps
                      /\ \A m \in 1..(n - 1) : s[m] \notin seps
         IN  <<SubSeq(s, 1, k - 1)>> \o SplitOn(SubSeq(s, k + 1, Len(s)), seps)

\* the concatenation of a sequence of character sequences
RECURSIVE Flatten(_)
Flatten(ss) == IF ss = <<>> THEN <<>> ELSE Head(ss) \o Flatten(Tail(ss))

\* all sequences over S of length 0..n
SeqsUpTo(S, n) == UNION { [1..m -> S] : m \in 0..n }

(***************************************************************************)
(* Protocol engine: XIPInstrument.                                         *)
(***************************************************************************)
\* the text the error check looks for
NoErrorText == <<"N", "o", " ", "e", "r", "r", "o", "r">>
\* the text query removes from a checked response
NoErrorSegment == <<";", "0", ",", "\"">> \o NoErrorText \o <<"\"">>
\* the error-buffer query appended to a checked instruction
ErrorClause == ";:SYSTem:ERRor:ALL?"

TimedOut == <<"Communication timed out">>
ScpiErrorPrefix == "SCPI command error: "

\* outcome of a call: returned normally with a value, or raised
Returned(v) == [raised |-> FALSE, value |-> v, message |-> <<>>]
Raised(m) == [raised |-> TRUE, value |-> <<>>, message |-> m]

\* _error_check with the two tests in the other order (mutation)
ErrorCheckMarkerFirst(response) ==
    IF ~Contains(response, NoErrorText)
    THEN LET response_list == SplitOn(response, {";"})
         IN  Raised(<<ScpiErrorPrefix>> \o response_list[Len(response_list)])
    ELSE IF response = <<>> THEN Raised(TimedOut)
    ELSE Returned(<<>>)

\* _error_check reporting the first segment instead of the last (mutation)
ErrorCheckFirstSegment(response) ==
    IF response = <<>> THEN Raised(TimedOut)
    ELSE IF ~Contains(response, NoErrorText)
         THEN Raised(<<ScpiErrorPrefix>> \o SplitOn(response, {";"})[1])
         ELSE Returned(<<>>)

\* XIPInstrument._error_check(response)
ErrorCheck(response) ==
    IF response = <<>> THEN Raised(TimedOut)
    ELSE IF ~Contains(response, NoErrorText)
         THEN LET response_list == SplitOn(response, {";"})
                  returned_errors == response_list[Len(response_list)]
              IN  Raised(<<ScpiErrorPrefix>> \o returned_errors)
         ELSE Returned(<<>>)

\* the line XIPInstrument.query sends for an instruction
QueryLine(query, check_errors) ==
    IF check_errors THEN query \o <<ErrorClause>> ELSE query

\* XIPInstrument.query after _usb_query has read `response`
QueryResult(response, check_errors) ==
    IF check_errors /\ ErrorCheck(response).raised
    THEN ErrorCheck(response)
    ELSE IF check_errors
         THEN Returned(RStrip(Replace(response, NoErrorSegment, <<>>)))
         ELSE Returned(RStrip(response))

\* the line XIPInstrument.command sends: a checked command goes through
\* query with query's default check_errors=True
CommandLine(command, check_errors) ==
    IF check_errors THEN QueryLine(command \o <<ErrorClause>>, TRUE) ELSE command

\* XIPInstrument.command (checked) after the transport has answered `response`:
\* query's result is error-checked a second time
CommandResult(response) ==
    LET q == QueryResult(response, TRUE)
    IN  IF q.raised THEN q
        ELSE IF ErrorCheck(q.value).raised THEN ErrorCheck(q.value)
        ELSE Returned(<<>>)


(***************************************************************************)
(* State.  The engine variables follow one call of command or query at a   *)
(* time through its transport write and read; the decoder variables follow *)
(* one get_buffered_data session; the connection variables follow one      *)
(* connect_usb.                                                            *)
(***************************************************************************)
VARIABLES
    epc,          \* engine: position in the current call
    call,         \* engine: [op, check_errors] of the current or last call
    line,         \* engine: the line the call sends
    sent,         \* engine: lines written to the transport by this call
    raw,          \* engine: response read from the transport by this call
    reads,        \* engine: reads of the transport by this call
    outcome,      \* engine: what the call returned or raised
    calls,        \* engine: calls started so far
    totalWrites,  \* engine: writes of the transport over all calls
    totalReads,   \* engine: reads of the transport over all calls
    pc,           \* decoder: position in get_buffered_data
    requested,    \* decoder: the duration passed by the caller, in ms
    length_of_time_in_seconds,  \* decoder: the rounded duration, in 1/100 s
    sample_rate_in_ms,  \* decoder: <<>> for None, <<i>> for an interval of i ms
    file_name,    \* decoder: TRUE when a file name was passed
    buffered_data,  \* decoder: the samples accumulated so far
    file,         \* decoder: the csv file, [state, lines]
    wire,         \* decoder: the lines sent to the instrument, in order
    flushed,      \* decoder: what the pre-loop fetch returned
    arrived,      \* decoder: raw records of the in-loop polls, in order
    polls,        \* decoder: in-loop polls issued so far
    configured,   \* decoder: what the instrument answered to the interval line
    polled,       \* decoder: what the last in-loop fetch returned
    error,        \* decoder: the exception that ended the session, if any
    cpc,          \* connection: position in connect_usb
    wanted,       \* connection: [serial_number, com_port] passed by the caller
    ports,        \* connection: the list comports() returned
    cursor,       \* connection: ports of the list examined so far
    device_serial,  \* connection: the open port, [port, written, input_reset]
    connect_error   \* connection: the exception connect_usb raised, if any

engineVars == <<epc, call, line, sent, raw, reads, outcome, calls,
                totalWrites, totalReads>>

decoderVars == <<pc, requested, length_of_time_in_seconds, sample_rate_in_ms,
                 file_name, buffered_data, file, wire, flushed, arrived, polls,
                 configured, polled, error>>

connectVars == <<cpc, wanted, ports, cursor, device_serial, connect_error>>

vars == <<engineVars, decoderVars, connectVars>>

\* the pieces raw responses of the engine are built from
PayloadPiece == <<"1">>
SeparatorPiece == <<";">>
NoErrorPiece == <<"0", ",", "\"">> \o NoErrorText \o <<"\"">>
ErrorPiece == <<"-", "1", ",", "\"", "E", "\"">>
NewlinePiece == <<"\n">>
SpacePiece == <<" ">>
Pieces == {PayloadPiece, SeparatorPiece, NoErrorPiece, ErrorPiece,
           NewlinePiece, SpacePiece}

\* what readline may return: any text of up to MaxPieces pieces, the empty
\* text (a read timeout) included
RawResponses == { Flatten(ps) : ps \in SeqsUpTo(Pieces, MaxPieces) }

Instructions == { <<"INSTR">> }

NoOutcome == Returned(<<>>)

EngineInit ==
    /\ epc = "idle"
    /\ call = [op |-> "none", check_errors |-> FALSE]
    /\ line = <<>>
    /\ sent = <<>>
    /\ raw = <<>>
    /\ reads = 0
    /\ outcome = NoOutcome
    /\ calls = 0
    /\ totalWrites = 0
    /\ totalReads = 0

\* an unchecked command that waits for a response like every other call
\* (mutation)
AfterWriteAlwaysRead(c) == "readline"

\* where a call goes after _usb_command has written its line: command with
\* check_errors=False returns, every other call is inside _usb_query and reads
AfterWrite(c) ==
    IF c.op = "command" /\ ~c.check_errors THEN "return" ELSE "readline"

\* what the call returns or raises once the transport interaction is over
CallResult(c, response) ==
    IF c.op = "query" THEN QueryResult(response, c.check_errors)
    ELSE IF c.check_errors THEN CommandResult(response)
    ELSE Returned(<<>>)

\* a caller starts XIPInstrument.command(instruction, check_errors)
Command(instruction, check_errors) ==
    /\ epc \in {"idle", "done"}
    /\ calls < MaxCalls
    /\ call' = [op |-> "command", check_errors |-> check_errors]
    /\ line' = CommandLine(instruction, check_errors)
    /\ sent' = <<>>
    /\ raw' = <<>>
    /\ reads' = 0
    /\ outcome' = NoOutcome
    /\ calls' = calls + 1
    /\ epc' = "usb_command"
    /\ UNCHANGED <<totalWrites, totalReads, decoderVars, connectVars>>

\* a caller starts XIPInstrument.query(instruction, check_errors)
Query(instruction, check_errors) ==
    /\ epc \in {"idle", "done"}
    /\ calls < MaxCalls
    /\ call' = [op |-> "query", check_errors |-> check_errors]
    /\ line' = QueryLine(instruction, check_errors)
    /\ sent' = <<>>
    /\ raw' = <<>>
    /\ reads' = 0
    /\ outcome' = NoOutcome
    /\ calls' = calls + 1
    /\ epc' = "usb_command"
    /\ UNCHANGED <<totalWrites, totalReads, decoderVars, connectVars>>

\* XIPInstrument._usb_command: device_serial.write(line + b'\n')
UsbCommand ==
    /\ epc = "usb_command"
    /\ sent' = Append(sent, line)
    /\ totalWrites' = totalWrites + 1
    /\ epc' = AfterWrite(call)
    /\ UNCHANGED <<call, line, raw, reads, outcome, calls, totalReads, decoderVars, connectVars>>

\* XIPInstrument._usb_query: device_serial.readline(); the transport answers
\* with any text, or with the empty text when the read times out
ReadLine ==
    /\ epc = "readline"
    /\ \E response \in RawResponses : raw' = response
    /\ reads' = reads + 1
    /\ totalReads' = totalReads + 1
    /\ epc' = "return"
    /\ UNCHANGED <<call, line, sent, outcome, calls, totalWrites, decoderVars, connectVars>>

\* the rest of query / command: error check, stripping, return or raise
Return ==
    /\ epc = "return"
    /\ outcome' = CallResult(call, raw)
    /\ epc' = "done"
    /\ UNCHANGED <<call, line, sent, raw, reads, calls, totalWrites, totalReads,
                   decoderVars, connectVars>>

EngineNext ==
    \/ \E i \in Instructions, c \in BOOLEAN : Command(i, c)
    \/ \E i \in Instructions, c \in BOOLEAN : Query(i, c)
    \/ UsbCommand
    \/ ReadLine
    \/ Return

(***************************************************************************)
(* Buffered sample decoder: Teslameter.get_buffered_data.                  *)
(* Durations are counted in milliseconds (requested) and in 1/100 s        *)
(* (rounded); a sample's time_elapsed n * i / 1000 is held as the integer  *)
(* n * i, its numerator over 1000.                                         *)
(***************************************************************************)
\* the durations a caller passes, in ms
RequestedDurations == { 5 * k : k \in 0..MaxDurationSteps } \cup { 4030 }

\* the intervals a caller passes, in ms (<<>> is None)
RequestedRates == { <<>>, <<0>>, <<10>>, <<4030>> }

\* ties of round(ms / 1000, 2) that fall to the lower 1/100 s because the
\* double nearest ms / 1000 lies below the tie (durations below 100 ms)
TiesRoundedDown == {15, 45, 75}

\* round(length_of_time_in_seconds, 2), in 1/100 s, of a duration given in ms
\* (for the durations of RequestedDurations)
RoundToHundredths(ms) ==
    IF ms % 10 > 5 \/ (ms % 10 = 5 /\ ms \notin TiesRoundedDown)
    THEN ms \div 10 + 1
    ELSE ms \div 10

\* the rounded durations cs (1/100 s, below 10 s) whose double product
\* cs / 100 * 1000 lies above the exact 10 * cs
ProductRoundsUp == {403, 407, 805, 806, 813, 814}

\* length_of_time_in_seconds * 1000 as the comparison with an integer sees
\* it: the least integer not below the double product
DurationTimes1000(cs) == 10 * cs + (IF cs \in ProductRoundsUp THEN 1 ELSE 0)

\* the termination test: len(buffered_data) * sample_rate_in_ms >=
\* length_of_time_in_seconds * 1000
TimeIsUp(count, rate, cs) == count * rate >= DurationTimes1000(cs)

\* the delimiters of re.split(r'T|:|\+|,', point)
FieldDelimiters == {"T", ":", "+", ","}

\* a split that drops empty pieces, as str.split() without argument does
\* (mutation)
ParsePointSkipEmpty(point) ==
    SelectSeq(SplitOn(point, FieldDelimiters), LAMBDA f : f # <<>>)

\* re.split(r'T|:|\+|,', point)
ParsePoint(point) == SplitOn(point, FieldDelimiters)

\* a normalization that appends '0' without moving the input state (mutation)
NormalizeAppendOnly(parsed_point) ==
    IF Len(parsed_point) = 11
    THEN parsed_point \o << <<"0">> >>
    ELSE parsed_point

\* the branch taken for a point without field control: pop the input state,
\* append '0', append the input state
Normalize(parsed_point) ==
    IF Len(parsed_point) = 11
    THEN SubSeq(parsed_point, 1, 10) \o << <<"0">>, parsed_point[11] >>
    ELSE parsed_point

\* an elapsed time counted from the samples before this one (mutation)
ElapsedTimeFromZero(count, rate) == count * rate

\* elapsed_time = (len(buffered_data) + 1) * sample_rate_in_ms / 1000,
\* as its numerator over 1000
ElapsedTime(count, rate) == (count + 1) * rate

\* a DataPoint of 14 fields (mutation)
FitsDataPointThirteen(parsed_point) == Len(parsed_point) = 13

\* a DataPoint that drops the fields it has no name for (mutation)
FitsDataPointAtLeast(parsed_point) == Len(parsed_point) >= 12

\* DataPoint(elapsed_time, *parsed_point) accepts exactly 12 further fields
FitsDataPoint(parsed_point) == Len(parsed_point) = 12

\* DataPoint(elapsed_time, *parsed_point)
DataPoint(elapsed_time, p) ==
    [time_elapsed |-> elapsed_time, date |-> p[1], hour |-> p[2],
     minute |-> p[3], second |-> p[4], time_zone_hour |-> p[5],
     time_zone_minute |-> p[6], magnitude |-> p[7], x |-> p[8], y |-> p[9],
     z |-> p[10], field_control_set_point |-> p[11], input_state |-> p[12]]

\* str(parsed_point) without quotes and brackets: the fields joined by ", "
RECURSIVE JoinFields(_)
JoinFields(p) ==
    IF p = <<>> THEN <<>>
    ELSE IF Len(p) = 1 THEN p[1]
    ELSE p[1] \o <<",", " ">> \o JoinFields(Tail(p))

\* the line written to the file for one point; str(elapsed_time) is held as
\* the number
FileRow(elapsed_time, parsed_point) ==
    [time_elapsed |-> elapsed_time,
     text |-> <<",">> \o JoinFields(parsed_point) \o <<"\n">>]

HeaderLine ==
    "time elapsed,date,hour,minute,second,time zone hour,time zone minute,magnitude,x,y,z,field control set point,input state\n"

NoFile == [state |-> "none", header |-> "", rows |-> <<>>]

\* a file that is left open when time is up (mutation)
FileAfterPointNeverClosed(f, row, up) ==
    [f EXCEPT !.rows = IF f.state = "open" THEN Append(@, row) ELSE @]

\* the file after one point: the row is written if a file is open, and the
\* file is closed if time is up
FileAfterPoint(f, row, up) ==
    [f EXCEPT !.rows = IF f.state = "open" THEN Append(@, row) ELSE @,
              !.state = IF up /\ @ = "open" THEN "closed" ELSE @]

\* a loop that makes the test of time only after the last point of a batch
\* (mutation)
RECURSIVE ProcessPointsWholeBatch(_, _, _, _)
ProcessPointsWholeBatch(data_points, st, rate, cs) ==
    IF data_points = <<>> \/ st.status # "loop" THEN st
    ELSE LET parsed_point == Normalize(ParsePoint(Head(data_points)))
             elapsed_time == ElapsedTime(Len(st.data), rate)
         IN  IF ~FitsDataPoint(parsed_point)
             THEN [st EXCEPT !.status = "TypeError"]
             ELSE LET data == Append(st.data, DataPoint(elapsed_time, parsed_point))
                      up == Len(data_points) = 1 /\ TimeIsUp(Len(data), rate, cs)
                  IN  ProcessPointsWholeBatch(Tail(data_points),
                          [data |-> data,
                           file |-> FileAfterPoint(st.file,
                                        FileRow(elapsed_time, parsed_point), up),
                           status |-> IF up THEN "returned" ELSE "loop"],
                          rate, cs)

\* the for loop over data_points: st = [data, file, status], status "loop"
\* while the loop runs, "returned" once time is up, "TypeError" when DataPoint
\* rejects a point
RECURSIVE ProcessPoints(_, _, _, _)
ProcessPoints(data_points, st, rate, cs) ==
    IF data_points = <<>> \/ st.status # "loop" THEN st
    ELSE LET parsed_point == Normalize(ParsePoint(Head(data_points)))
             elapsed_time == ElapsedTime(Len(st.data), rate)
         IN  IF ~FitsDataPoint(parsed_point)
             THEN [st EXCEPT !.status = "TypeError"]
             ELSE LET data == Append(st.data, DataPoint(elapsed_time, parsed_point))
                      up == TimeIsUp(Len(data), rate, cs)
                  IN  ProcessPoints(Tail(data_points),
                          [data |-> data,
                           file |-> FileAfterPoint(st.file,
                                        FileRow(elapsed_time, parsed_point), up),
                           status |-> IF up THEN "returned" ELSE "loop"],
                          rate, cs)

\* a loop that parses every non-empty response (mutation)
HasDataNonEmpty(response) == response # <<>>

\* if ';' in response
HasData(response) == Contains(response, <<";">>)

\* the in-loop fetch with error checking left on (mutation)
PollCheckErrorsOn == TRUE

\* the in-loop fetch is made with check_errors=False
PollCheckErrors == FALSE

\* data_points = response.rstrip(';').split(';')
DataPoints(response) == SplitOn(RStripChars(response, {";"}), {";"})

Digits == <<"0", "1", "2", "3", "4", "5", "6", "7", "8", "9">>

\* int(text) accepts text made of decimal digits (sign, underscores and
\* surrounding white space do not occur in ConfigResponses)
IsInt(text) ==
    /\ text # <<>>
    /\ \A k \in 1..Len(text) : \E d \in 1..10 : Digits[d] = text[k]

RECURSIVE IntOf(_)
IntOf(text) ==
    IF text = <<>> THEN 0
    ELSE 10 * IntOf(SubSeq(text, 1, Len(text) - 1))
         + (CHOOSE d \in 0..9 : Digits[d + 1] = text[Len(text)])

\* a read-back count taken as milliseconds (mutation)
ReadBackRateUnscaled(count) == IntOf(count)

\* sample_rate_in_ms = 10 * int(count)
ReadBackRate(count) == 10 * IntOf(count)

\* str(sample_rate_in_ms / 10) for an integer interval: one decimal digit
StrOfTenth(rate) == ToString(rate \div 10) \o "." \o ToString(rate % 10)

\* a record with field control connected: 12 sub-fields
FullRecord ==
    <<"d", "T", "1", ":", "2", ":", "3", "+", "4", ":", "5", ",", "6", ",",
      "7", ",", "8", ",", "9", ",", "0", ",", "1">>

\* another 12-sub-field record (it differs in its magnitude)
OtherFullRecord ==
    <<"d", "T", "1", ":", "2", ":", "3", "+", "4", ":", "5", ",", "7", ",",
      "7", ",", "8", ",", "9", ",", "0", ",", "1">>

\* a record without field control: 11 sub-fields
ShortRecord ==
    <<"d", "T", "1", ":", "2", ":", "3", "+", "4", ":", "5", ",", "6", ",",
      "7", ",", "8", ",", "9", ",", "1">>

\* a record with one sub-field too many: 13 sub-fields
LongRecord ==
    <<"d", "T", "1", ":", "2", ":", "3", "+", "4", ":", "5", ",", "6", ",",
      "7", ",", "8", ",", "9", ",", "0", ",", "1", ",", "x">>

\* a record left in the buffer by an earlier session (date "s")
StaleRecord ==
    <<"s", "T", "1", ":", "2", ":", "3", "+", "4", ":", "5", ",", "6", ",",
      "7", ",", "8", ",", "9", ",", "0", ",", "1">>

\* the record T10:30:15+05:30,12.5,1,2,3,0,1
ExampleRecord ==
    <<"T", "1", "0", ":", "3", "0", ":", "1", "5", "+", "0", "5", ":", "3",
      "0", ",", "1", "2", ".", "5", ",", "1", ",", "2", ",", "3", ",", "0",
      ",", "1">>

\* what the instrument may answer to the interval command or query
ConfigResponses ==
    { <<>>,
      NoErrorPiece \o NoErrorSegment \o <<"\n">>,
      NoErrorPiece \o <<"\n">>,
      <<"0">> \o NoErrorSegment \o <<"\n">>,
      <<"1">> \o NoErrorSegment \o <<"\n">>,
      <<"2">> \o NoErrorSegment \o <<"\n">>,
      <<"x">> \o NoErrorSegment \o <<"\n">>,
      ErrorPiece \o <<"\n">> }

\* what the pre-loop fetch may return
FlushResponses ==
    { <<>>,
      StaleRecord \o <<";">> \o StaleRecord \o <<";", "\n">>,
      <<"s", ",", ";", "\n">> }

\* what an in-loop fetch may return
PollResponses ==
    { <<>>,
      FullRecord \o <<"\n">>,
      FullRecord \o <<";", "\n">>,
      ShortRecord \o <<";", "\n">>,
      OtherFullRecord \o <<";">> \o ShortRecord \o <<";">> \o FullRecord \o <<";", "\n">>,
      ExampleRecord \o <<";", "\n">>,
      LongRecord \o <<";", "\n">>,
      <<";", "\n">> }

NoError == <<>>

DecoderInit ==
    /\ pc = "idle"
    /\ requested = 0
    /\ length_of_time_in_seconds = 0
    /\ sample_rate_in_ms = <<>>
    /\ file_name = FALSE
    /\ buffered_data = <<>>
    /\ file = NoFile
    /\ wire = <<>>
    /\ flushed = <<>>
    /\ arrived = <<>>
    /\ polls = 0
    /\ configured = <<>>
    /\ polled = <<>>
    /\ error = NoError

\* a flush whose records are kept as the first samples (mutation)
InitialDataKeepsFlush(flush_result) ==
    IF Contains(flush_result, <<";">>)
    THEN ProcessPoints(DataPoints(flush_result),
                       [data |-> <<>>, file |-> NoFile, status |-> "loop"],
                       0, 1).data
    ELSE <<>>

\* buffered_data = [] after the pre-loop fetch, whose result is dropped
InitialData(flush_result) == <<>>

\* a caller starts get_buffered_data(length_of_time_in_seconds,
\* sample_rate_in_ms, file_name); the duration is rounded at once
GetBufferedData(duration, rate, name) ==
    /\ pc = "idle"
    /\ requested' = duration
    /\ length_of_time_in_seconds' = RoundToHundredths(duration)
    /\ sample_rate_in_ms' = rate
    /\ file_name' = name
    /\ pc' = "configure"
    /\ UNCHANGED <<buffered_data, file, wire, flushed, arrived, polls,
                   configured, polled, error, engineVars, connectVars>>

\* sample_rate_in_ms is not None: self.command("SENSE:AVERAGE:COUNT " + ...)
SetSampleRate ==
    /\ pc = "configure"
    /\ sample_rate_in_ms # <<>>
    /\ \E response \in ConfigResponses :
         LET r == CommandResult(response)
         IN  /\ pc' = IF r.raised THEN "raised" ELSE "flush"
             /\ error' = IF r.raised THEN r.message ELSE error
             /\ configured' = response
    /\ wire' = Append(wire, CommandLine(<<"SENSE:AVERAGE:COUNT ",
                                          StrOfTenth(sample_rate_in_ms[1])>>, TRUE))
    /\ UNCHANGED <<requested, length_of_time_in_seconds, sample_rate_in_ms,
                   file_name, buffered_data, file, flushed, arrived, polls,
                   polled, engineVars, connectVars>>

\* sample_rate_in_ms is None: 10 * int(self.query("SENSE:AVERAGE:COUNT?"))
ReadSampleRate ==
    /\ pc = "configure"
    /\ sample_rate_in_ms = <<>>
    /\ \E response \in ConfigResponses :
         LET r == QueryResult(response, TRUE)
         IN  /\ configured' = response
             /\ IF r.raised
                THEN /\ pc' = "raised"
                     /\ error' = r.message
                     /\ UNCHANGED sample_rate_in_ms
                ELSE IF ~IsInt(r.value)
                THEN /\ pc' = "raised"
                     /\ error' = <<"ValueError">>
                     /\ UNCHANGED sample_rate_in_ms
                ELSE /\ pc' = "flush"
                     /\ sample_rate_in_ms' = <<ReadBackRate(r.value)>>
                     /\ UNCHANGED error
    /\ wire' = Append(wire, QueryLine(<<"SENSE:AVERAGE:COUNT?">>, TRUE))
    /\ UNCHANGED <<requested, length_of_time_in_seconds, file_name,
                   buffered_data, file, flushed, arrived, polls, polled,
                   engineVars, connectVars>>

\* clear the buffer by querying it: self.query('FETC:BUFF:DC?',
\* check_errors=False), then buffered_data = []
Flush ==
    /\ pc = "flush"
    /\ \E response \in FlushResponses :
         /\ flushed' = response
         /\ buffered_data' = InitialData(QueryResult(response, FALSE).value)
    /\ wire' = Append(wire, QueryLine(<<"FETC:BUFF:DC?">>, FALSE))
    /\ pc' = "open"
    /\ UNCHANGED <<requested, length_of_time_in_seconds, sample_rate_in_ms,
                   file_name, file, arrived, polls, configured, polled, error,
                   engineVars, connectVars>>

\* if file_name is not None: open the file and write the header
OpenFile ==
    /\ pc = "open"
    /\ file' = IF file_name
               THEN [state |-> "open", header |-> HeaderLine, rows |-> <<>>]
               ELSE file
    /\ pc' = "poll"
    /\ UNCHANGED <<requested, length_of_time_in_seconds, sample_rate_in_ms,
                   file_name, buffered_data, wire, flushed, arrived, polls,
                   configured, polled, error, engineVars, connectVars>>

\* one turn of the while loop: fetch the buffer, and if the response holds a
\* ';' parse its points until they are used up, time is up or one is rejected;
\* an exception of query leaves the loop
Poll ==
    /\ pc = "poll"
    /\ polls < MaxPolls
    /\ \E raw_response \in PollResponses :
         LET r == QueryResult(raw_response, PollCheckErrors)
             response == r.value
             st == ProcessPoints(DataPoints(response),
                                 [data |-> buffered_data, file |-> file, status |-> "loop"],
                                 sample_rate_in_ms[1], length_of_time_in_seconds)
         IN  /\ polled' = raw_response
             /\ IF r.raised
                THEN /\ pc' = "raised"
                     /\ error' = r.message
                     /\ UNCHANGED <<buffered_data, file, arrived>>
                ELSE IF HasData(response)
                THEN /\ buffered_data' = st.data
                     /\ file' = st.file
                     /\ arrived' = arrived \o DataPoints(response)
                     /\ pc' = IF st.status = "loop" THEN "poll"
                              ELSE IF st.status = "returned" THEN "returned"
                              ELSE "raised"
                     /\ error' = IF st.status = "TypeError" THEN <<"TypeError">> ELSE error
                ELSE UNCHANGED <<buffered_data, file, arrived, pc, error>>
    /\ polls' = polls + 1
    /\ wire' = Append(wire, QueryLine(<<"FETC:BUFF:DC?">>, PollCheckErrors))
    /\ UNCHANGED <<requested, length_of_time_in_seconds, sample_rate_in_ms,
                   file_name, flushed, configured, engineVars, connectVars>>

(***************************************************************************)
(* Connection: XIPInstrument.connect_usb and disconnect_usb.  None is held *)
(* as the text "None".                                                     *)
(***************************************************************************)
\* Teslameter.vid_pid
VidPid == { <<8121, 1029>>, <<8121, 1030>> }

\* the ports a system may list: instruments of the allow-list and an
\* unrelated USB serial adapter
PortsOnBus ==
    [vid_pid : VidPid \cup { <<1027, 24577>> },
     device : {"COM1", "COM2", "COM3"},
     serial_number : {"LSA1", "LSA2"}]

\* what comports() may return: the ports in the order of their device names
ListedPorts ==
    { ps \in SeqsUpTo(PortsOnBus, MaxPorts) :
        \A k \in 1..Len(ps) : ps[k].device = <<"COM1", "COM2", "COM3">>[k] }

WantedSerialNumbers == {"None", "LSA1", "LSA2"}
WantedComPorts == {"None", "COM1", "COM2", "COM4"}

NoDevice == [port |-> "None", written |-> <<>>, input_reset |-> FALSE]

NoInstrumentFound == <<"No instrument found with given parameters">>

ConnectInit ==
    /\ cpc = "idle"
    /\ wanted = [serial_number |-> "None", com_port |-> "None"]
    /\ ports = <<>>
    /\ cursor = 0
    /\ device_serial = NoDevice
    /\ connect_error = <<>>

\* a scan that does not compare serial numbers (mutation)
MatchesAnySerial(port, w) ==
    /\ port.vid_pid \in VidPid
    /\ port.device = w.com_port \/ w.com_port = "None"

\* the three nested tests of the for loop
Matches(port, w) ==
    /\ port.vid_pid \in VidPid
    /\ port.device = w.com_port \/ w.com_port = "None"
    /\ port.serial_number = w.serial_number \/ w.serial_number = "None"

\* connect_usb(serial_number, com_port, ...): enumerate the ports
ConnectUsb(serial_number, com_port, listed) ==
    /\ cpc = "idle"
    /\ cpc' = "scan"
    /\ wanted' = [serial_number |-> serial_number, com_port |-> com_port]
    /\ ports' = listed
    /\ cursor' = 0
    /\ UNCHANGED <<device_serial, connect_error, engineVars, decoderVars>>

\* one turn of the for loop: a matching port is opened, written a line
\* break, its input buffer reset, and the loop is left
ScanPort ==
    /\ cpc = "scan"
    /\ cursor < Len(ports)
    /\ cursor' = cursor + 1
    /\ LET port == ports[cursor + 1]
       IN  IF Matches(port, wanted)
           THEN /\ device_serial' = [port |-> port.device, written |-> <<"\n">>,
                                     input_reset |-> TRUE]
                /\ cpc' = "connected"
           ELSE UNCHANGED <<device_serial, cpc>>
    /\ UNCHANGED <<wanted, ports, connect_error, engineVars, decoderVars>>

\* the else branch of the for loop: the list is used up without a break
NoPortMatched ==
    /\ cpc = "scan"
    /\ cursor = Len(ports)
    /\ cpc' = "raised"
    /\ connect_error' = NoInstrumentFound
    /\ UNCHANGED <<wanted, ports, cursor, device_serial, engineVars, decoderVars>>

\* disconnect_usb: close the port and forget it
DisconnectUsb ==
    /\ cpc = "connected"
    /\ cpc' = "closed"
    /\ device_serial' = NoDevice
    /\ UNCHANGED <<wanted, ports, cursor, connect_error, engineVars, decoderVars>>

ConnectNext ==
    \/ \E n \in WantedSerialNumbers, c \in WantedComPorts, l \in ListedPorts :
           ConnectUsb(n, c, l)
    \/ ScanPort
    \/ NoPortMatched
    \/ DisconnectUsb

Next ==
    \/ \E d \in RequestedDurations, r \in RequestedRates, n \in BOOLEAN :
           GetBufferedData(d, r, n)
    \/ SetSampleRate
    \/ ReadSampleRate
    \/ Flush
    \/ OpenFile
    \/ Poll

Init == EngineInit /\ DecoderInit /\ ConnectInit

\* one decode session
Spec == Init /\ [][Next]_vars

\* the engine alone: calls of command and query by a caller
SpecEngine == Init /\ [][EngineNext]_vars

\* the connection alone: one connect_usb and the disconnect_usb after it
SpecConnect == Init /\ [][ConnectNext]_vars


(***************************************************************************)
(* Claims about the protocol engine (checked under SpecEngine).            *)
(***************************************************************************)
\* the part of a text after its last ';' (the whole text when it has none)
FinalSegment(s) ==
    LET at == { k \in 1..Len(s) : s[k] = ";" }
        last == IF at = {} THEN 0 ELSE CHOOSE k \in at : \A j \in at : j <= k
    IN  SubSeq(s, last + 1, Len(s))

\* a text without its trailing line terminator and white space
WithoutLineEnd(s) ==
    LET keep == { k \in 0..Len(s) : \A j \in (k + 1)..Len(s) : s[j] \in Whitespace }
    IN  SubSeq(s, 1, CHOOSE k \in keep : \A j \in keep : k <= j)

\* a checked call has finished
CheckedCallDone == epc = "done" /\ call.check_errors

\* C1: every checked instruction (query or command) whose raw response
\* contains the no-error marker succeeds, and query returns the raw response
\* without the no-error marker segment and without the trailing line end.
C1_MarkerMeansSuccess ==
    (CheckedCallDone /\ Contains(raw, NoErrorText)) =>
        /\ ~outcome.raised
        /\ call.op = "query" =>
               outcome.value = WithoutLineEnd(Replace(raw, NoErrorSegment, <<>>))

\* C2: every checked instruction whose raw response is non-empty and lacks
\* the no-error marker fails with the SCPI command error whose text is the
\* final ';'-delimited segment of the raw response.
C2_ProtocolErrorCarriesFinalSegment ==
    (CheckedCallDone /\ raw # <<>> /\ ~Contains(raw, NoErrorText)) =>
        /\ outcome.raised
        /\ outcome.message = <<ScpiErrorPrefix>> \o FinalSegment(raw)

C2_Witness ==
    /\ CheckedCallDone
    /\ call.op = "command"
    /\ raw = PayloadPiece \o SeparatorPiece \o ErrorPiece
    /\ outcome.raised
    /\ outcome.message = <<ScpiErrorPrefix>> \o ErrorPiece

\* C3: a checked instruction whose raw response is empty fails with the
\* time-out error and never with the SCPI command error, although the empty
\* response does not contain the no-error marker either.
C3_EmptyResponseIsTimeout ==
    (CheckedCallDone /\ raw = <<>>) =>
        /\ outcome.raised
        /\ outcome.message = TimedOut
        /\ Head(outcome.message) # ScpiErrorPrefix

C3_Witness ==
    /\ CheckedCallDone
    /\ reads = 1
    /\ raw = <<>>
    /\ ~Contains(raw, NoErrorText)
    /\ outcome = Raised(TimedOut)

\* C4: every call writes exactly one line, the one it built, and reads at
\* most once: query and checked command read exactly once, unchecked command
\* does not read; over any sequence of calls reads never exceed writes.
C4_OneWriteAtMostOneRead ==
    /\ Len(sent) <= 1
    /\ reads <= Len(sent)
    /\ totalReads <= totalWrites
    /\ totalWrites <= calls
    /\ epc = "done" =>
           /\ sent = <<line>>
           /\ reads = (IF call.op = "command" /\ ~call.check_errors THEN 0 ELSE 1)
           /\ totalWrites = calls

C4_Witness ==
    /\ epc = "done"
    /\ calls = 2
    /\ call.op = "command"
    /\ ~call.check_errors
    /\ reads = 0
    /\ totalWrites = 2
    /\ totalReads = 1


\* C15: for every checked command the one line written is the caller's
\* instruction followed by the error clause ';:SYSTem:ERRor:ALL?' appended
\* once, and the error check is run on the one response read for it.
C15_ClauseAppendedOnce ==
    (epc = "done" /\ call.op = "command" /\ call.check_errors) =>
        /\ \E instruction \in Instructions : sent = <<instruction \o <<ErrorClause>>>>
        /\ reads = 1
        /\ outcome = ErrorCheck(raw)


(***************************************************************************)
(* Claims about the buffered sample decoder (checked under Spec).          *)
(***************************************************************************)
\* the interval in force once the Configure phase is over
Interval == sample_rate_in_ms[1]

\* the sub-fields of a sample after time_elapsed, in DataPoint's order
FieldsOf(sample) ==
    <<sample.date, sample.hour, sample.minute, sample.second,
      sample.time_zone_hour, sample.time_zone_minute, sample.magnitude,
      sample.x, sample.y, sample.z, sample.field_control_set_point,
      sample.input_state>>

\* the session was ended by DataPoint rejecting the record after the last
\* accumulated sample
Rejected == pc = "raised" /\ error = <<"TypeError">>
RejectedRecord == arrived[Len(buffered_data) + 1]

\* C5: a session that completes (for a duration above 0) returns the earliest
\* sample count n crossing the threshold: n * i >= duration * 1000 and
\* (n - 1) * i < duration * 1000, with the duration as rounded to 1/100 s.
C5_EarliestCountCrossingThreshold ==
    (pc = "returned" /\ requested > 0) =>
        LET n == Len(buffered_data)
        IN  /\ n * Interval >= 10 * length_of_time_in_seconds
            /\ (n - 1) * Interval < 10 * length_of_time_in_seconds

\* C6: the n-th accumulated sample has elapsed time n * i / 1000 (held as
\* n * i), whatever the number of polls and the content of the records.
C6_ElapsedTimeIsOrdinalTimesInterval ==
    \A n \in 1..Len(buffered_data) :
        buffered_data[n].time_elapsed = n * Interval

C6_Witness ==
    /\ polls = 2
    /\ Len(arrived) = 2
    /\ Len(buffered_data) = 2
    /\ Interval = 10
    /\ buffered_data[2].time_elapsed = 20
    /\ buffered_data[1].magnitude # buffered_data[2].magnitude

\* C7: every record that splits into exactly 11 sub-fields yields a sample
\* whose field_control_set_point is "0", whose input_state is the 11th
\* sub-field and whose first 10 fields are the first 10 sub-fields in order.
C7_ShortRecordIsPadded ==
    /\ \A k \in 1..Len(buffered_data) :
         LET p == SplitOn(arrived[k], {"T", ":", "+", ","})
         IN  Len(p) = 11 =>
               /\ SubSeq(FieldsOf(buffered_data[k]), 1, 10) = SubSeq(p, 1, 10)
               /\ buffered_data[k].field_control_set_point = <<"0">>
               /\ buffered_data[k].input_state = p[11]
               /\ Cardinality(DOMAIN buffered_data[k]) = 13
    /\ Rejected => Len(SplitOn(RejectedRecord, {"T", ":", "+", ","})) # 11

C7_Witness ==
    \E k \in 1..Len(buffered_data) :
        /\ arrived[k] = ShortRecord
        /\ buffered_data[k].z = <<"9">>
        /\ buffered_data[k].field_control_set_point = <<"0">>
        /\ buffered_data[k].input_state = <<"1">>

\* C8 as stated: a record that splits into exactly 13 sub-fields passes
\* through and produces a sample, that is, it is never rejected.
C8_ThirteenSubFieldsPass ==
    Rejected => Len(SplitOn(RejectedRecord, {"T", ":", "+", ","})) # 13

\* C8 (amended): a record that splits into exactly 12 sub-fields passes
\* through unchanged, its sub-fields being the sample's fields after
\* time_elapsed, and is never rejected.
C8_TwelveSubFieldsPass ==
    /\ \A k \in 1..Len(buffered_data) :
         LET p == SplitOn(arrived[k], {"T", ":", "+", ","})
         IN  Len(p) = 12 => FieldsOf(buffered_data[k]) = p
    /\ Rejected => Len(SplitOn(RejectedRecord, {"T", ":", "+", ","})) # 12

C8_Witness ==
    \E k \in 1..Len(buffered_data) :
        /\ arrived[k] = OtherFullRecord
        /\ buffered_data[k].magnitude = <<"7">>
        /\ buffered_data[k].input_state = <<"1">>

\* the example record was the first record of the session, at 10 ms
ExampleIsFirstSample ==
    /\ Len(buffered_data) >= 1
    /\ arrived[1] = ExampleRecord
    /\ Interval = 10

\* C9 as stated: the example record gives date "10", hour "30", minute "15",
\* magnitude "12.5", x "1", y "2", z "3", set point "0", input state "1" and
\* elapsed time 0.01.
C9_ExampleAsStated ==
    ExampleIsFirstSample =>
        /\ buffered_data[1].date = <<"1", "0">>
        /\ buffered_data[1].hour = <<"3", "0">>
        /\ buffered_data[1].minute = <<"1", "5">>
        /\ buffered_data[1].magnitude = <<"1", "2", ".", "5">>
        /\ buffered_data[1].x = <<"1">>
        /\ buffered_data[1].y = <<"2">>
        /\ buffered_data[1].z = <<"3">>
        /\ buffered_data[1].field_control_set_point = <<"0">>
        /\ buffered_data[1].input_state = <<"1">>
        /\ buffered_data[1].time_elapsed = 10

\* C9 (amended): the example record gives date "" (the text before the
\* leading T), hour "10", minute "30", second "15", time zone "05" and "30",
\* magnitude "12.5", x "1", y "2", z "3", set point "0", input state "1" and
\* elapsed time 0.01.
C9_ExampleAsParsed ==
    ExampleIsFirstSample =>
        /\ buffered_data[1].date = <<>>
        /\ buffered_data[1].hour = <<"1", "0">>
        /\ buffered_data[1].minute = <<"3", "0">>
        /\ buffered_data[1].second = <<"1", "5">>
        /\ buffered_data[1].time_zone_hour = <<"0", "5">>
        /\ buffered_data[1].time_zone_minute = <<"3", "0">>
        /\ buffered_data[1].magnitude = <<"1", "2", ".", "5">>
        /\ buffered_data[1].x = <<"1">>
        /\ buffered_data[1].y = <<"2">>
        /\ buffered_data[1].z = <<"3">>
        /\ buffered_data[1].field_control_set_point = <<"0">>
        /\ buffered_data[1].input_state = <<"1">>
        /\ buffered_data[1].time_elapsed = 10

C9_Witness ==
    /\ ExampleIsFirstSample
    /\ pc = "returned"
    /\ requested = 10
    /\ buffered_data[1].time_elapsed = 10

\* C10: nothing the pre-loop fetch returned reaches the samples or the file:
\* before the first in-loop poll both are empty, and afterwards the k-th
\* sample and the k-th row come from the k-th record of the in-loop polls and
\* are numbered from 1.
C10_FlushContributesNothing ==
    /\ polls = 0 => (buffered_data = <<>> /\ file.rows = <<>>)
    /\ Len(buffered_data) <= Len(arrived)
    /\ Len(file.rows) <= Len(arrived)
    /\ \A k \in 1..Len(buffered_data) :
         /\ buffered_data[k].date = SplitOn(arrived[k], {"T", ":", "+", ","})[1]
         /\ buffered_data[k].date # <<"s">>
         /\ buffered_data[k].time_elapsed = k * Interval
    /\ \A k \in 1..Len(file.rows) :
         /\ file.rows[k].time_elapsed = k * Interval
         /\ ~Contains(file.rows[k].text, <<"s">>)

C10_Witness ==
    /\ flushed = StaleRecord \o <<";">> \o StaleRecord \o <<";", "\n">>
    /\ pc = "returned"
    /\ Len(buffered_data) = 2
    /\ file.state = "closed"
    /\ Len(file.rows) = 2

\* C11: in the poll loop a response that holds no ';' (the empty response of
\* a read time-out included) raises no error, appends no sample, writes no
\* row to the file, leaves the accumulated samples as they were, and the loop
\* goes on to poll again.
C11_EmptyBatchIsSkipped ==
    [][(pc = "poll" /\ polls' = polls + 1
            /\ \A k \in 1..Len(polled') : polled'[k] # ";")
         => /\ pc' = "poll"
            /\ error' = error
            /\ buffered_data' = buffered_data
            /\ file' = file]_vars

C11_Witness ==
    /\ pc = "poll"
    /\ polls = 2
    /\ polled = <<>>
    /\ Len(buffered_data) = 1
    /\ file.state = "open"
    /\ Len(file.rows) = 1
    /\ error = NoError

\* C12: a session given a file name that completes has closed the file, and
\* the file holds the header line followed by one row per returned sample in
\* the same order; at every point of the loop the number of rows written is
\* the number of accumulated samples.  Without a file name no file exists.
C12_FileHoldsOneRowPerSample ==
    /\ ~file_name => file = NoFile
    /\ file.state # "none" =>
          /\ file_name
          /\ file.header = HeaderLine
          /\ Len(file.rows) = Len(buffered_data)
          /\ \A k \in 1..Len(file.rows) :
                /\ file.rows[k].time_elapsed = buffered_data[k].time_elapsed
                /\ file.rows[k].text =
                      <<",">> \o JoinFields(FieldsOf(buffered_data[k])) \o <<"\n">>
    /\ (file_name /\ pc = "returned") => file.state = "closed"
    /\ file.state = "closed" => pc = "returned"

C12_Witness ==
    /\ pc = "returned"
    /\ file.state = "closed"
    /\ Len(buffered_data) = 3
    /\ Len(file.rows) = 3
    /\ file.rows[1].text # file.rows[2].text
    /\ polls = 2

\* C13: when the instrument stops responding during the loop, the read
\* time-out of the transport fails the poll: a poll whose read timed out
\* (empty response) ends the session instead of being followed by another
\* poll.
C13_TimeoutEndsSession ==
    [][(pc = "poll" /\ polls' = polls + 1 /\ polled' = <<>>)
         => pc' # "poll"]_vars

\* C16: a completed session returns exactly the first n records, in arrival
\* order, of the concatenation of the in-loop poll batches, where n is the
\* first count at which the termination test holds; the records of the last
\* batch after the n-th are neither appended nor written to the file, and no
\* poll is issued once the test holds.
C16_StopsMidBatchInArrivalOrder ==
    LET n == Len(buffered_data)
        stop(m) == TimeIsUp(m, Interval, length_of_time_in_seconds)
    IN  /\ (pc \in {"poll", "returned"} /\ polls > 0) =>
              /\ n <= Len(arrived)
              /\ \A k \in 1..n :
                    LET p == SplitOn(arrived[k], {"T", ":", "+", ","})
                    IN  /\ SubSeq(FieldsOf(buffered_data[k]), 1, 10) = SubSeq(p, 1, 10)
                        /\ buffered_data[k].input_state = p[Len(p)]
                        /\ buffered_data[k].time_elapsed = k * Interval
              /\ \A m \in 1..(n - 1) : ~stop(m)
              /\ file.state # "none" => Len(file.rows) = n
        /\ pc = "returned" =>
              /\ n >= 1
              /\ stop(n)
              /\ ~ENABLED Poll
        /\ (pc = "poll" /\ n >= 1) => ~stop(n)

C16_Witness ==
    /\ pc = "returned"
    /\ polls = 2
    /\ Len(arrived) = 4
    /\ Len(buffered_data) = 2
    /\ buffered_data[2].magnitude # buffered_data[1].magnitude
    /\ file.state = "closed"
    /\ Len(file.rows) = 2

\* the state part of C17: the lines on the wire are the interval line, then
\* the unchecked flush, then the in-loop polls, and the file is opened only
\* after the flush
C17_OrderOfLines ==
    LET fetch == <<"FETC:BUFF:DC?">>
    IN  /\ pc \in {"idle", "configure"} => (wire = <<>> /\ file = NoFile /\ polls = 0)
        /\ pc \notin {"idle", "configure"} =>
              /\ Len(wire) >= 1
              /\ wire[1][1] \in {"SENSE:AVERAGE:COUNT ", "SENSE:AVERAGE:COUNT?"}
              /\ wire[1][Len(wire[1])] = ErrorClause
              /\ \A k \in 2..Len(wire) : wire[k] = fetch
        /\ pc = "flush" => (Len(wire) = 1 /\ file = NoFile /\ polls = 0)
        /\ pc = "open" => (Len(wire) = 2 /\ file = NoFile /\ polls = 0)
        /\ pc \in {"poll", "returned"} =>
              /\ Len(wire) = 2 + polls
              /\ file_name <=> file.state # "none"
        /\ file.state # "none" => Len(wire) >= 2
        /\ polls > 0 => Len(wire) = 2 + polls
        /\ (pc = "raised" /\ polls = 0) =>
              /\ Len(wire) = 1
              /\ file = NoFile
              /\ buffered_data = <<>>
              /\ flushed = <<>>
              /\ error # NoError

\* C17: a session first makes exactly one interval interaction (the checked
\* configuration command with argument interval / 10 when the interval is
\* given, otherwise the checked read-back query whose count times 10 is the
\* interval), then exactly one unchecked flush fetch, then opens the file if
\* one is requested, and only then polls; a failure of the interval
\* interaction aborts before the flush, the opening of the file and any poll.
C17_ConfigureOrdering ==
    /\ []C17_OrderOfLines
    /\ [][pc = "configure" =>
            /\ pc' \in {"flush", "raised"}
            /\ Len(wire') = 1
            /\ IF sample_rate_in_ms # <<>>
               THEN /\ SubSeq(wire'[1], 1, 2) =
                          <<"SENSE:AVERAGE:COUNT ",
                            ToString(Interval \div 10) \o "." \o ToString(Interval % 10)>>
                    /\ sample_rate_in_ms' = sample_rate_in_ms
               ELSE /\ wire'[1] = <<"SENSE:AVERAGE:COUNT?", ErrorClause>>
                    /\ pc' = "flush" =>
                          \E c \in 0..9 :
                              /\ configured'[1] = Digits[c + 1]
                              /\ configured'[2] = ";"
                              /\ sample_rate_in_ms' = <<10 * c>>
                    /\ pc' = "raised" => sample_rate_in_ms' = <<>>]_vars

C17_Witness ==
    /\ pc = "poll"
    /\ polls = 1
    /\ Len(wire) = 3
    /\ wire[1] = <<"SENSE:AVERAGE:COUNT?", ErrorClause>>
    /\ configured = <<"2">> \o NoErrorSegment \o <<"\n">>
    /\ Interval = 20
    /\ flushed # <<>>
    /\ file.state = "open"

\* C18: a record whose split yields neither the short shape (11 sub-fields)
\* nor the full shape (12) is a hard error: the session is aborted at that
\* record, no sample is appended for it, no field of an accepted record is
\* dropped or padded beyond the set point of the short shape, and the
\* samples accumulated so far are not returned.
C18_UnexpectedShapeIsRejected ==
    LET n == Len(buffered_data)
        split(k) == SplitOn(arrived[k], {"T", ":", "+", ","})
    IN  /\ n <= Len(arrived)
        /\ \A k \in 1..n :
              /\ Len(split(k)) \in {11, 12}
              /\ Len(split(k)) = 12 => FieldsOf(buffered_data[k]) = split(k)
              /\ Len(split(k)) = 11 =>
                    FieldsOf(buffered_data[k]) =
                        SubSeq(split(k), 1, 10) \o <<<<"0">>, split(k)[11]>>
        /\ (pc \in {"poll", "raised"} /\ n < Len(arrived)) =>
              /\ Rejected
              /\ Len(split(n + 1)) \notin {11, 12}
        /\ Rejected =>
              /\ n < Len(arrived)
              /\ Len(split(n + 1)) \notin {11, 12}
              /\ file.state # "closed"

C18_Witness ==
    /\ Rejected
    /\ polls = 2
    /\ Len(buffered_data) = 1
    /\ Len(arrived) = 2
    /\ Len(SplitOn(arrived[2], {"T", ":", "+", ","})) = 13
    /\ file.state = "open"
    /\ Len(file.rows) = 1

\* the session was ended by the time-out error or the SCPI command error
ConnectionOrProtocolError ==
    /\ pc = "raised"
    /\ error = TimedOut \/ (error # <<>> /\ Head(error) = ScpiErrorPrefix)

\* C19: the time-out (connection) error and the SCPI command (protocol)
\* error are raised only by the interval interaction, while no sample is
\* accumulated and the file is not open; the flush and every poll are sent
\* unchecked, so no state with an open file or a sample has such an error,
\* and a session aborted with the file open was aborted by a record of
\* unexpected shape.
C19_ErrorsOnlyWhileConfiguring ==
    /\ ConnectionOrProtocolError =>
          /\ Len(wire) = 1
          /\ polls = 0
          /\ buffered_data = <<>>
          /\ file = NoFile
    /\ (file.state # "none" \/ buffered_data # <<>>) =>
          error \in {NoError, <<"TypeError">>}
    /\ \A k \in 2..Len(wire) : \A j \in 1..Len(wire[k]) : wire[k][j] # ErrorClause
    /\ (pc = "raised" /\ file.state = "open") =>
          /\ error = <<"TypeError">>
          /\ Len(buffered_data) < Len(arrived)
          /\ Len(SplitOn(RejectedRecord, {"T", ":", "+", ","})) \notin {11, 12}

C19_Witness ==
    /\ pc = "raised"
    /\ error = <<"TypeError">>
    /\ file.state = "open"
    /\ Len(buffered_data) = 3
    /\ Len(file.rows) = 3
    /\ RejectedRecord = <<>>
    /\ Len(wire) = 4

\* C20: for every duration and interval a session that keeps receiving
\* well-formed batches completes, the interval 0 (given, or read back as a
\* count of 0) included: whenever the loop polls there is a count of samples
\* at which the termination test holds.
C20_SomeCountEndsTheLoop ==
    pc = "poll" =>
        \E n \in 1..(10 * length_of_time_in_seconds + 1) :
            TimeIsUp(n, Interval, length_of_time_in_seconds)


(***************************************************************************)
(* Claims about the connection (checked under SpecConnect).                *)
(***************************************************************************)
\* C14: connect_usb given a serial number or port name that no listed port
\* of the allow-list matches raises the connection error after one pass over
\* the list; when a listed port matches, the first such port is opened, the
\* scan stops there and no error is raised.
C14_FirstMatchOrConnectionError ==
    LET matching == { k \in 1..Len(ports) :
                        /\ ports[k].vid_pid \in { <<8121, 1029>>, <<8121, 1030>> }
                        /\ wanted.com_port \in {"None", ports[k].device}
                        /\ wanted.serial_number \in {"None", ports[k].serial_number} }
        first == CHOOSE k \in matching : \A j \in matching : k <= j
    IN  /\ cursor <= Len(ports)
        /\ cpc = "scan" => \A k \in 1..cursor : k \notin matching
        /\ cpc = "raised" =>
              /\ matching = {}
              /\ cursor = Len(ports)
              /\ connect_error = NoInstrumentFound
              /\ device_serial = NoDevice
        /\ cpc = "connected" =>
              /\ matching # {}
              /\ cursor = first
              /\ device_serial.port = ports[first].device
              /\ connect_error = <<>>
        /\ (cpc \in {"scan", "connected", "closed"}) => connect_error = <<>>
        /\ (cpc = "scan" /\ cursor = Len(ports)) => matching = {}

C14_Witness ==
    /\ cpc = "raised"
    /\ wanted.serial_number = "LSA2"
    /\ Len(ports) = 2
    /\ \A k \in 1..2 : ports[k].vid_pid \in VidPid /\ ports[k].serial_number = "LSA1"
    /\ connect_error = NoInstrumentFound

=============================================================================
